---- MODULE Spec2Model ----
(***************************************************************************)
(* Client-side data synchronisation of the travel-catalog dashboard:       *)
(* App (session, shared snapshot `data`, fetchAllData), the three manager  *)
(* components (ExperienceManager, ItineraryManager, ImageManager) and the  *)
(* REST backend they talk to.  Every asynchronous handler is a task: the   *)
(* synchronous code up to an await is one step, the backend handling the   *)
(* request is one step, and the continuation after the await is one step.  *)
(***************************************************************************)
EXTENDS Integers, Sequences, FiniteSets, Bags, TLC

\* ------------------------------------------------------------- bounds
\* Handlers (fetchAllData, fetch*, handleDelete*, handleSubmit) in flight at once.
MaxTasks == 2
\* Mutations the backend applies in one run.
MaxMut == 2
\* isNew is examined this many milliseconds to either side of the two-day mark.
MaxSkew == 4
\* error and load events delivered to one ImageWithFallback
MaxEvents == 4
\* days of an itinerary, and activities of a day
MaxDays == 2
MaxActs == 2

\* ------------------------------------------------------------ domains
Coll == {"experiences", "itineraries", "images", "updates"}
\* The collections that have a manager component.
Managed == {"experiences", "itineraries", "images"}
Roles == {"admin", "user"}
NoUser == "null"
\* A 2xx body of a list endpoint: {data: [...]} or the bare array.
Shapes == {"wrapped", "bare"}
\* The field values of an item (title, caption, ...), abstracted: the seed
\* items carry "a", the forms submit one of Vals.
Vals == {"b"}

EmptyData == [c \in Coll |-> <<>>]

\* The tokens the backend hands out at login.
Tokens == {"t1", "t2"}
\* localStorage.getItem of a key that is not stored returns null.
NoToken == "null"
NoEntry == "null"

\* JSON.stringify(userData) of handleLogin, and JSON.parse(storedUser) of
\* the session restore: parse gives back the user of a text that stringify
\* produced and throws a SyntaxError on any other text.
Stringify(role) == IF role = "admin" THEN "{role:admin}" ELSE "{role:user}"
Corrupt == "{role:adm"
CanParse(text) == \E role \in Roles : Stringify(role) = text
Parse(text) == CHOOSE role \in Roles : Stringify(role) = text

\* The three keys the client keeps in localStorage.
NoSession == [user |-> NoEntry, token |-> NoToken, authToken |-> NoToken]
\* A login that stores the user and 'authToken' but not 'token'.
PersistedWithoutToken(role, tok) ==
  [user |-> Stringify(role), token |-> NoToken, authToken |-> tok]

\* handleLogin: setItem('user'), setItem('token'), setItem('authToken').
Persisted(role, tok) == [user |-> Stringify(role), token |-> tok, authToken |-> tok]

\* The first item of every collection, present on the backend from the start.
SeedItem == [id |-> 1, v |-> "a", createdAt |-> 0]

Ids(list) == {list[k].id : k \in 1..Len(list)}

\* Array.prototype.filter(x => x.id !== id)
RECURSIVE FilterOut(_, _)
FilterOut(list, id) ==
  IF list = <<>> THEN <<>>
  ELSE IF Head(list).id = id THEN FilterOut(Tail(list), id)
  ELSE <<Head(list)>> \o FilterOut(Tail(list), id)

\* The backend's PUT: the item with this id carries the submitted values.
RECURSIVE Replace(_, _, _)
Replace(list, id, v) ==
  IF list = <<>> THEN <<>>
  ELSE IF Head(list).id = id
       THEN <<[Head(list) EXCEPT !.v = v]>> \o Replace(Tail(list), id, v)
       ELSE <<Head(list)>> \o Replace(Tail(list), id, v)

\* ---------------------------------------------------------- responses
\* A request's state: pending, rejected (network error or non-2xx), or
\* resolved with a body.  t is the backend's clock when it read the list.
Pending == [st |-> "pending", shape |-> "none", items |-> <<>>, t |-> 0]
Failed == [st |-> "fail", shape |-> "none", items |-> <<>>, t |-> 0]
Ok(shape, items, t) == [st |-> "ok", shape |-> shape, items |-> items, t |-> t]

\* App.fetchAllData: `res.data || []`.  A bare array has no `data` property.
AppBody(r) == IF r.shape = "wrapped" THEN r.items ELSE <<>>

\* fetchExperiences / fetchItineraries: `response.data || response`;
\* fetchImages: `response.data || response || []`.  An empty array is truthy.
MgrBody(r) == IF r.shape = "wrapped" THEN r.items ELSE r.items

\* App.fetchAllData: the .catch of each request turns a rejection into {data: []}.
Caught(r) == IF r.st = "fail" THEN Ok("wrapped", <<>>, 0) ELSE r

\* ImageManager create/update: `result.success && result.data` (and the url
\* of the created image) are read from the envelope; a bare payload has none.
ImageResultValid(r) == r.shape = "wrapped"

\* ----------------------------------------------------------- requests
\* A request as fetch() sends it: method, the collection of the URL ("auth"
\* for /auth/login), the Authorization and Content-Type headers, the body's
\* encoding, and whether the body carries a file part / an image URL.
NoHeader == "absent"
Bearer(tok) == "Bearer " \o tok
Json == "application/json"
Request(method, c, authorization, contentType, body, file, url) ==
  [method |-> method, c |-> c, authorization |-> authorization,
   contentType |-> contentType, body |-> body, file |-> file, url |-> url]

\* getAuthHeaders(): Content-Type JSON, and Authorization when a token is stored.
getAuthHeaders(tok) ==
  [contentType |-> Json,
   authorization |-> IF tok # NoToken THEN Bearer(tok) ELSE NoHeader]

\* <collection>API.getAll(): fetch(url) without an init argument.
ListRequest(c) == Request("GET", c, NoHeader, NoHeader, "none", FALSE, FALSE)

\* <collection>API.delete(id): headers: getAuthHeaders(), no body.
DeleteRequest(c, tok) ==
  Request("DELETE", c, getAuthHeaders(tok).authorization,
          getAuthHeaders(tok).contentType, "none", FALSE, FALSE)

\* The POST / PUT of a manager's handleSubmit.
\*  - ExperienceManager / ItineraryManager: a FormData with the image when a
\*    file is selected, else an object with imageUrl; experiencesAPI /
\*    itinerariesAPI.create / update send Authorization when a token is
\*    stored and Content-Type JSON (and JSON.stringify) unless FormData.
\*  - ImageManager: always a FormData, with the file or else the url, sent by
\*    a direct fetch with Authorization `Bearer ${localStorage.getItem('authToken')}`.
SubmitRequest(c, op, file, tok) ==
  LET method == IF op = "create" THEN "POST" ELSE "PUT" IN
  IF c = "images"
  THEN Request(method, c, Bearer(tok), NoHeader, "multipart", file, ~file)
  ELSE Request(method, c, IF tok # NoToken THEN Bearer(tok) ELSE NoHeader,
               IF file THEN NoHeader ELSE Json,
               IF file THEN "multipart" ELSE "json", file, ~file)

\* authAPI.login: POST /auth/login with a JSON body.
LoginRequest == Request("POST", "auth", NoHeader, Json, "json", FALSE, FALSE)

\* -------------------------------------------------------------- state
VARIABLES
  storage,          \* localStorage: the keys 'user', 'token', 'authToken'
  sent,             \* the requests the last step handed to fetch()
  login,            \* LoginPage: loading and error
  response,         \* a handleResponse call: the response and its outcome
  listUrl,          \* a getAll call: its params and the query string it builds
  badge,            \* an isNew call: implementation, createdAt, now, result
  img,              \* an ImageWithFallback instance
  daysForm,         \* ItineraryManager's form: the itinerary edited, daysData, days
  user,             \* App: the logged-in user's role, or NoUser
  data,             \* App: the shared snapshot, one list per collection
  isLoading,        \* App
  connectionError,  \* App
  mounted,          \* per manager: the component is rendered
  items,            \* per manager: experiences / itineraries / images
  mgrLoading,       \* per manager: its own isLoading
  server,           \* backend: the stored list of each collection
  clock,            \* backend: mutations applied so far
  tasks,            \* the asynchronous handler invocations in flight
  toast,            \* the notifications emitted by the last step
  fence             \* per mounted manager: backend clock of the latest of its
                    \* mutations whose refresh has resolved (history, not program state)

vars == <<user, data, isLoading, connectionError, mounted, items, mgrLoading,
          server, clock, tasks, toast, fence, storage, sent,
          login, response, listUrl, badge, img, daysForm>>

appVars == <<user, data, isLoading, connectionError>>
mgrVars == <<mounted, items, mgrLoading>>
srvVars == <<server, clock>>
\* The components and functions examined on their own.
partVars == <<response, listUrl, badge, img, daysForm>>

\* A part that the run at hand does not exercise.
Unused == "unused"
PartsUnused ==
  /\ response = Unused /\ listUrl = Unused /\ badge = Unused
  /\ img = Unused /\ daysForm = Unused

\* LoginPage as mounted: useState(false) for loading, useState('') for error.
LoginIdle == [loading |-> FALSE, error |-> ""]

\* A task is one invocation of an asynchronous handler, suspended at an
\* await: kind names the handler (fetchAll, fetch, delete, submit), pc the
\* request it awaits, req / res the state of that request (res: the four
\* requests of fetchAllData), cap the `data` prop and capList the manager's
\* list of the render whose closure runs, live whether that component
\* instance is still mounted, mt the backend clock of its own mutation.
\* tasks is the bag of the tasks in flight.
Idle ==
  [kind |-> "idle", c |-> "none", pc |-> "none", op |-> "none", id |-> 0,
   v |-> "none", live |-> FALSE, cap |-> EmptyData, capList |-> <<>>,
   req |-> Pending, res |-> [c \in Coll |-> Pending], mt |-> 0]

Running == BagToSet(tasks)
Start(t) == tasks (+) SetToBag({t})
Finish(t) == tasks (-) SetToBag({t})
Become(t, u) == (tasks (-) SetToBag({t})) (+) SetToBag({u})
HasFree == BagCardinality(tasks) < MaxTasks

\* Mutation requests sent and not yet handled by the backend.
PendingMut ==
  BagCardinality([t \in {u \in Running : u.pc = "mutating" /\ u.req.st = "pending"}
                    |-> tasks[t]])

\* ---------------------------------------------------------------- App
\* fetchAllData up to its await: setIsLoading(true), setConnectionError(false)
\* and the four list requests.  origin names the caller.
FetchAllTask(origin) ==
  [Idle EXCEPT !.kind = "fetchAll", !.c = "all", !.pc = "loading", !.op = origin]
\* (a fetchAllData that asks for the three managed collections only)
FetchAllRequestsManaged == {ListRequest(c) : c \in Managed}
FetchAllRequests == {ListRequest(c) : c \in Coll}

\* The mount effect of App, not yet run.
BootTask == [Idle EXCEPT !.kind = "boot", !.c = "all", !.pc = "mount"]
Booted == \A t \in Running : t.kind # "boot"

\* Page load: useState initial values, localStorage as an earlier visit left
\* it, the mount effect pending.
Init ==
  /\ user = NoUser
  /\ data = EmptyData
  /\ isLoading = TRUE
  /\ connectionError = FALSE
  /\ mounted = [c \in Managed |-> FALSE]
  /\ items = [c \in Managed |-> <<>>]
  /\ mgrLoading = [c \in Managed |-> FALSE]
  /\ server = [c \in Coll |-> <<SeedItem>>]
  /\ clock = 0
  /\ tasks = SetToBag({BootTask})
  /\ toast = <<>>
  /\ fence = [c \in Managed |-> 0]
  /\ \E u \in {NoEntry, Corrupt} \cup {Stringify(role) : role \in Roles},
        tok \in {NoToken, "t1"} :
       storage = [user |-> u, token |-> tok, authToken |-> tok]
  /\ sent = {}
  /\ login = LoginIdle
  /\ PartsUnused

\* A logout that removes 'user' and 'authToken' only.
KeysAfterLogoutKeepingToken(st) == [NoSession EXCEPT !.token = st.token]

\* What handleLogout does to App's state and to localStorage: the three
\* removeItem calls, authAPI.logout(), setUser(null), setData(empty),
\* setConnectionError(false), toast.success.
KeysAfterLogout(st) == NoSession
ClearSession ==
  /\ storage' = KeysAfterLogout(storage)
  /\ user' = NoUser
  /\ data' = EmptyData
  /\ connectionError' = FALSE
  /\ toast' = <<"success:logout">>

\* A catch block of the mount effect that only logs the error.
RestoreFailedIgnored(t) ==
  /\ tasks' = Finish(t)
  /\ sent' = {}
  /\ toast' = <<>>
  /\ UNCHANGED <<storage, user, data, connectionError, isLoading>>

\* The catch block of the mount effect: handleLogout().  isLoading keeps
\* its initial value true; with no user App renders the login page.
RestoreFailed(t) ==
  /\ ClearSession
  /\ tasks' = Finish(t)
  /\ sent' = {}
  /\ UNCHANGED isLoading

\* App's mount effect: with a stored token and a stored user, setAuthToken,
\* setUser(JSON.parse(storedUser)) and fetchAllData; when JSON.parse throws,
\* handleLogout; without a stored session, setIsLoading(false).
RestoreSession(t) ==
  /\ t \in Running
  /\ t.kind = "boot"
  /\ IF storage.token # NoToken /\ storage.user # NoEntry
     THEN IF CanParse(storage.user)
          THEN /\ storage' = [storage EXCEPT !.authToken = storage.token]
               /\ user' = Parse(storage.user)
               /\ isLoading' = TRUE
               /\ connectionError' = FALSE
               /\ tasks' = Become(t, FetchAllTask("restore"))
               /\ sent' = FetchAllRequests
               /\ toast' = <<>>
               /\ UNCHANGED data
          ELSE RestoreFailed(t)
     ELSE /\ isLoading' = FALSE
          /\ tasks' = Finish(t)
          /\ sent' = {}
          /\ toast' = <<>>
          /\ UNCHANGED <<user, data, connectionError, storage>>
  /\ UNCHANGED <<mgrVars, srvVars, fence>>
  /\ UNCHANGED <<login, partVars>>

\* LoginPage.handleSubmit with a response that has a user and a token:
\* authAPI.login has called setAuthToken(token) (storage errors ignored),
\* then App.handleLogin: the three setItem calls, setUser, fetchAllData.
\* avail: localStorage.setItem works; when it throws, handleLogin's catch
\* runs after the first setItem: toast.error, nothing else.
HandleLogin(role, tok, avail) ==
  /\ user = NoUser
  /\ Booted
  /\ HasFree
  /\ IF avail
     THEN /\ storage' = Persisted(role, tok)
          /\ user' = role
          /\ isLoading' = TRUE
          /\ connectionError' = FALSE
          /\ tasks' = Start(FetchAllTask("login"))
          /\ sent' = {LoginRequest} \cup FetchAllRequests
          /\ toast' = <<>>
     ELSE /\ toast' = <<"error:login">>
          /\ sent' = {LoginRequest}
          /\ UNCHANGED <<storage, user, isLoading, connectionError, tasks>>
  /\ UNCHANGED <<data, mgrVars, srvVars, fence>>
  /\ login' = LoginIdle
  /\ UNCHANGED partVars

\* The ways LoginPage.handleSubmit ends without calling onLogin: a field is
\* empty, authAPI.login rejects (network failure or non-2xx response), or
\* the decoded response lacks user, token or both.
LoginFailures == {"empty", "rejected", "no-user", "no-token", "neither"}
LoginError(kind) ==
  IF kind = "empty" THEN "Please enter both email and password"
  ELSE IF kind = "rejected" THEN "Login failed"
  ELSE "Invalid email or password"

\* authAPI.login after handleResponse: `if (data.token) setAuthToken(data.token)`,
\* whatever else the response holds.
KeysAfterResponse(st, kind, tok) ==
  IF kind = "no-user" THEN [st EXCEPT !.authToken = tok] ELSE st

\* LoginPage.handleSubmit when no session is established: setError(''),
\* setLoading(true), the check of the fields, authAPI.login, setError(...),
\* and setLoading(false) on every path.  tok is the token of a response
\* that carries one.
LoginFails(kind, tok) ==
  /\ user = NoUser
  /\ Booted
  /\ storage' = KeysAfterResponse(storage, kind, tok)
  /\ sent' = IF kind = "empty" THEN {} ELSE {LoginRequest}
  /\ login' = [loading |-> FALSE, error |-> LoginError(kind)]
  /\ toast' = <<>>
  /\ UNCHANGED <<appVars, mgrVars, srvVars, tasks, fence, partVars>>

Orphaned(t) == [t EXCEPT !.live = FALSE]

\* App.handleLogout from the dashboard or the connection-error screen: the
\* dashboard (and every manager in it) is unmounted; requests in flight are
\* not aborted.
HandleLogout ==
  /\ user # NoUser
  /\ ~isLoading
  /\ ClearSession
  /\ mounted' = [c \in Managed |-> FALSE]
  /\ items' = [c \in Managed |-> <<>>]
  /\ mgrLoading' = [c \in Managed |-> FALSE]
  /\ tasks' = BagOfAll(Orphaned, tasks)
  /\ fence' = [c \in Managed |-> 0]
  /\ sent' = {}
  /\ UNCHANGED <<isLoading, srvVars>>
  /\ UNCHANGED <<login, partVars>>

\* handleLogout run by another tab of the same origin: localStorage is shared,
\* so its three removeItem calls empty this tab's storage too, while this
\* tab's React state is untouched.
LogoutElsewhere ==
  /\ user # NoUser
  /\ storage # NoSession
  /\ storage' = KeysAfterLogout(storage)
  /\ sent' = {}
  /\ toast' = <<>>
  /\ UNCHANGED <<appVars, mgrVars, srvVars, tasks, fence, login, partVars>>

\* App.handleRetry, the button of the connection-error screen (a user is
\* logged in whenever that screen is rendered): fetchAllData.
HandleRetry ==
  /\ user # NoUser
  /\ ~isLoading
  /\ connectionError
  /\ HasFree
  /\ isLoading' = TRUE
  /\ connectionError' = FALSE
  /\ tasks' = Start(FetchAllTask("retry"))
  /\ sent' = FetchAllRequests
  /\ toast' = <<>>
  /\ UNCHANGED <<user, data, storage, mgrVars, srvVars, fence>>
  /\ UNCHANGED <<login, partVars>>

\* What a list request can settle to: rejected, or the stored list in
\* either shape.
ListOutcomes(c) == {Failed} \cup {Ok(s, server[c], clock) : s \in Shapes}

\* A 2xx answer whose JSON body is null.  fetchAllData reads `.data` of it
\* unguarded; in a manager's fetch the same read throws inside the try and
\* is handled as a rejection, which Failed covers.
NullBody == Ok("null", <<>>, 0)

\* The backend answers fetchAllData's four list requests, each on its own.
\* Nothing reads a single response before Promise.all has all four.  The
\* null body is drawn for the first request only: the other three are read
\* in the same expression and throw the same way.
ServeFetchAll(t) ==
  /\ t \in Running
  /\ t.kind = "fetchAll"
  /\ \A c \in Coll : t.res[c].st = "pending"
  /\ \E r1 \in ListOutcomes("experiences") \cup {NullBody},
        r2 \in ListOutcomes("itineraries"),
        r3 \in ListOutcomes("images"), r4 \in ListOutcomes("updates") :
       tasks' = Become(t, [t EXCEPT !.res =
         [c \in Coll |-> CASE c = "experiences" -> r1 [] c = "itineraries" -> r2
                           [] c = "images" -> r3 [] c = "updates" -> r4]])
  /\ toast' = <<>>
  /\ sent' = {}
  /\ UNCHANGED <<appVars, mgrVars, srvVars, fence, storage>>
  /\ UNCHANGED <<login, partVars>>

\* What fetchAllData stores for one collection: the request's own .catch
\* has turned a rejection into {data: []}, then `res.data || []`.
Stored(r) == AppBody(Caught(r))

\* `experiencesRes.data` and its three siblings throw a TypeError when the
\* resolved body is null.
Threw(t) == \E c \in Coll : Caught(t.res[c]).shape = "null"

\* setIsLoading(false) as the last statement of the try block.
LoadingUnlessThrew(threw) == threw

\* finally { setIsLoading(false) }
LoadingAfterFetchAll(threw) == FALSE

\* fetchAllData after `await Promise.all(promises)`: every request carries
\* its own .catch, so the await never rejects.  With bodies that are objects
\* or arrays setData stores `res.data || []` per collection; a null body
\* throws and the catch block runs: setConnectionError(true), toast.error,
\* four empty lists.  finally: setIsLoading(false).  handleLogin then emits
\* its welcome toast.
FetchAllDone(t) ==
  /\ t \in Running
  /\ t.kind = "fetchAll"
  /\ \A c \in Coll : t.res[c].st # "pending"
  /\ data' = IF Threw(t) THEN EmptyData ELSE [c \in Coll |-> Stored(t.res[c])]
  /\ connectionError' = IF Threw(t) THEN TRUE ELSE connectionError
  /\ isLoading' = LoadingAfterFetchAll(Threw(t))
  /\ tasks' = Finish(t)
  /\ toast' = (IF Threw(t) THEN <<"error:connect">> ELSE <<>>)
              \o (IF t.op = "login" THEN <<"success:login">> ELSE <<>>)
  /\ sent' = {}
  /\ UNCHANGED <<user, mgrVars, srvVars, fence, storage>>
  /\ UNCHANGED <<login, partVars>>

\* ----------------------------------------------------------- managers
\* AdminDashboard renders the managers while App shows the dashboard.
DashboardShown == user = "admin" /\ ~isLoading /\ ~connectionError

\* ExperienceManager / ItineraryManager hide the item cards while isLoading;
\* ImageManager replaces its whole view (form included) by a spinner while
\* isLoading && images.length === 0.
CardsShown(c) ==
  /\ mounted[c]
  /\ IF c = "images" THEN ~(mgrLoading[c] /\ items[c] = <<>>) ELSE ~mgrLoading[c]
FormShown(c) ==
  /\ mounted[c]
  /\ c = "images" => ~(mgrLoading[c] /\ items[c] = <<>>)

MayMutate == clock + PendingMut < MaxMut

ListTask(c) ==
  [Idle EXCEPT !.kind = "fetch", !.c = c, !.pc = "refreshing", !.live = TRUE,
               !.cap = data]
MutTask(kind, c, op, id, v) ==
  [Idle EXCEPT !.kind = kind, !.c = c, !.pc = "mutating", !.op = op, !.id = id,
               !.v = v, !.live = TRUE, !.cap = data, !.capList = items[c]]

\* The admin opens the tab of manager c: the manager shown before is
\* unmounted (its requests in flight are not aborted), and c mounts:
\* useState(data.<collection> || []) and the mount effect, which calls
\* fetchExperiences / fetchItineraries / fetchImages: setIsLoading(true) and
\* the list request.  The closure keeps the `data` prop of this render.
Mount(c) ==
  /\ DashboardShown
  /\ ~mounted[c]
  /\ HasFree
  /\ mounted' = [d \in Managed |-> d = c]
  /\ items' = [d \in Managed |-> IF d = c THEN data[c] ELSE <<>>]
  /\ mgrLoading' = [d \in Managed |-> d = c]
  /\ tasks' = BagOfAll(Orphaned, tasks) (+) SetToBag({ListTask(c)})
  /\ toast' = <<>>
  /\ fence' = [d \in Managed |-> 0]
  /\ sent' = {ListRequest(c)}
  /\ UNCHANGED <<appVars, srvVars, storage>>
  /\ UNCHANGED <<login, partVars>>

\* handleDeleteExperience / ItineraryManager.handleDelete / ImageManager.handleDelete
\* after window.confirm: the DELETE request.  Only ImageManager sets isLoading.
HandleDelete(c, id) ==
  /\ CardsShown(c)
  /\ id \in Ids(items[c])
  /\ HasFree /\ MayMutate
  /\ tasks' = Start(MutTask("delete", c, "delete", id, "none"))
  /\ mgrLoading' = [mgrLoading EXCEPT ![c] = IF c = "images" THEN TRUE ELSE @]
  /\ toast' = <<>>
  /\ sent' = {DeleteRequest(c, storage.authToken)}
  /\ UNCHANGED <<appVars, mounted, items, srvVars, fence, storage>>
  /\ UNCHANGED <<login, partVars>>

\* handleAdd then handleSubmit (editingExperience is null: POST), or
\* handleEdit on a displayed item then handleSubmit (PUT of that item):
\* setIsLoading(true), then the request.  file: an image file is selected
\* in the form (selectedImage / uploadedFile); otherwise the form carries an
\* image URL.
HandleSubmit(c, op, id, v, file) ==
  /\ FormShown(c)
  /\ \/ op = "create" /\ id = 0
     \/ op = "update" /\ CardsShown(c) /\ id \in Ids(items[c])
  /\ HasFree /\ MayMutate
  /\ tasks' = Start(MutTask("submit", c, op, id, v))
  /\ mgrLoading' = [mgrLoading EXCEPT ![c] = TRUE]
  /\ toast' = <<>>
  /\ sent' = {SubmitRequest(c, op, file, storage.authToken)}
  /\ UNCHANGED <<appVars, mounted, items, srvVars, fence, storage>>
  /\ UNCHANGED <<login, partVars>>

\* ------------------------------------------------------------ backend
\* GET /<collection>: resolves with the stored list in either shape, or fails.
ServeList(t) ==
  /\ t \in Running
  /\ t.pc = "refreshing"
  /\ t.req.st = "pending"
  /\ \E r \in ListOutcomes(t.c) : tasks' = Become(t, [t EXCEPT !.req = r])
  /\ toast' = <<>>
  /\ sent' = {}
  /\ UNCHANGED <<appVars, mgrVars, srvVars, fence, storage>>
  /\ UNCHANGED <<login, partVars>>

\* The stored list after POST / PUT / DELETE; id and createdAt of a created
\* item are assigned by the backend.
Applied(list, op, id, v, now) ==
  CASE op = "create" -> Append(list, [id |-> now + 1, v |-> v, createdAt |-> now])
    [] op = "update" -> Replace(list, id, v)
    [] op = "delete" -> FilterOut(list, id)

\* POST / PUT / DELETE: applied and answered 2xx, or rejected (network error,
\* non-2xx; always so for an id the backend does not hold).  The body of
\* the answer is read only by ImageManager's create and update.
ServeMutation(t) ==
  /\ t \in Running
  /\ t.pc = "mutating"
  /\ t.req.st = "pending"
  /\ \/ /\ t.op = "create" \/ t.id \in Ids(server[t.c])
        /\ clock < MaxMut
        /\ server' = [server EXCEPT ![t.c] = Applied(@, t.op, t.id, t.v, clock + 1)]
        /\ clock' = clock + 1
        /\ \E s \in Shapes :
             /\ (t.c # "images" \/ t.op = "delete") => s = "wrapped"
             /\ tasks' = Become(t, [t EXCEPT !.req = Ok(s, <<>>, clock + 1),
                                             !.mt = clock + 1])
     \/ /\ tasks' = Become(t, [t EXCEPT !.req = Failed])
        /\ UNCHANGED srvVars
  /\ toast' = <<>>
  /\ sent' = {}
  /\ UNCHANGED <<appVars, mgrVars, fence, storage>>
  /\ UNCHANGED <<login, partVars>>

\* ------------------------------------------------------ continuations
Max(a, b) == IF a >= b THEN a ELSE b

\* A handler whose catch shows nothing.
MutationFailedSilently(t) == <<>>

\* What the catch of a handler shows when its create/update/delete request
\* rejects: toast.error('Failed to delete ...' / 'Failed to add ...' / the
\* error's message).
MutationFailedToast(t) == <<"error:mutation">>

\* What fetchImages' catch stores after toast.error: setImages([]).
\* fetchExperiences and fetchItineraries store nothing.
ListAfterFailedFetch(c, old) == IF c = "images" THEN <<>> ELSE old

\* The continuation of a mutation request.
\*  - rejected: the handler's catch (toast.error) and finally.
\*  - ExperienceManager / ItineraryManager, resolved: handleSubmit emits
\*    toast.success, then both handlers call fetchExperiences /
\*    fetchItineraries (setIsLoading(true), the list request).
\*  - ImageManager.handleDelete, resolved: images.filter on the list of the
\*    render that was clicked, setImages, onUpdateData({...data, images}).
\*  - ImageManager create / update, resolved: the envelope is validated, then
\*    toast.success and fetchImages.
\* State setters of an unmounted component do nothing; onUpdateData and
\* toast still act.
DeliverMutation(t) ==
  LET c == t.c
      ok == t.req.st = "ok"
      patch == ok /\ c = "images" /\ t.op = "delete"
      invalid == ok /\ c = "images" /\ t.op # "delete" /\ ~ImageResultValid(t.req)
      refetch == ok /\ ~patch /\ ~invalid
      newImages == FilterOut(t.capList, t.id)
  IN
  /\ t \in Running
  /\ t.pc = "mutating"
  /\ t.req.st # "pending"
  /\ tasks' = IF refetch THEN Become(t, [t EXCEPT !.pc = "refreshing", !.req = Pending])
              ELSE Finish(t)
  /\ items' = IF patch /\ t.live THEN [items EXCEPT ![c] = newImages] ELSE items
  /\ data' = IF patch THEN [t.cap EXCEPT ![c] = newImages] ELSE data
  /\ mgrLoading' =
       IF ~t.live THEN mgrLoading
       ELSE IF refetch THEN [mgrLoading EXCEPT ![c] = TRUE]
       ELSE IF c = "images" \/ t.kind = "submit" THEN [mgrLoading EXCEPT ![c] = FALSE]
       ELSE mgrLoading
  /\ toast' =
       IF ~ok THEN MutationFailedToast(t)
       ELSE IF invalid THEN <<"error:invalid-response">>
       ELSE IF patch \/ t.kind = "submit" THEN <<"success:mutation">>
       ELSE <<>>
  /\ sent' = IF refetch THEN {ListRequest(c)} ELSE {}
  /\ UNCHANGED <<user, isLoading, connectionError, mounted, srvVars, fence, storage>>
  /\ UNCHANGED <<login, partVars>>

\* The continuation of a manager's list request: fetchExperiences /
\* fetchItineraries / fetchImages after the await, then the rest of the
\* handler that awaited it (handleDelete*: toast.success; handleSubmit:
\* setIsDialogOpen(false), resetForm(), setIsLoading(false)).
DeliverList(t) ==
  LET c == t.c
      ok == t.req.st = "ok"
      body == MgrBody(t.req)
  IN
  /\ t \in Running
  /\ t.pc = "refreshing"
  /\ t.req.st # "pending"
  /\ tasks' = Finish(t)
  /\ items' =
       IF ~t.live THEN items
       ELSE IF ok THEN [items EXCEPT ![c] = body]
       ELSE [items EXCEPT ![c] = ListAfterFailedFetch(c, @)]
  /\ data' = IF ok THEN [t.cap EXCEPT ![c] = body] ELSE data
  /\ mgrLoading' = IF t.live THEN [mgrLoading EXCEPT ![c] = FALSE] ELSE mgrLoading
  /\ toast' = (IF ok THEN <<>> ELSE <<"error:load">>)
              \o (IF t.kind = "delete" THEN <<"success:mutation">> ELSE <<>>)
  /\ fence' =
       IF ok /\ t.live /\ t.kind # "fetch"
       THEN [fence EXCEPT ![c] = Max(@, t.mt)] ELSE fence
  /\ sent' = {}
  /\ UNCHANGED <<user, isLoading, connectionError, mounted, srvVars, storage>>
  /\ UNCHANGED <<login, partVars>>

\* ------------------------------------------------------ specifications
\* The session life cycle: login or restored session, fetchAllData, the
\* managers' mount fetches, logout.  The backend's lists do not change.
Next ==
  \/ \E t \in Running : RestoreSession(t)
  \/ \E role \in Roles, tok \in Tokens, avail \in BOOLEAN : HandleLogin(role, tok, avail)
  \/ HandleLogout
  \/ HandleRetry
  \/ \E t \in Running : ServeFetchAll(t)
  \/ \E t \in Running : FetchAllDone(t)
  \/ \E c \in Managed : Mount(c)
  \/ \E t \in Running : ServeList(t)
  \/ \E t \in Running : DeliverList(t)

Spec == Init /\ [][Next]_vars

\* The session life cycle alone, with the scheduling the runtime gives it:
\* the mount effect runs, every list request settles (resolved or
\* rejected), and the continuation of a settled Promise.all runs.
NextLoad ==
  \/ \E t \in Running : RestoreSession(t)
  \/ \E role \in Roles, tok \in Tokens, avail \in BOOLEAN : HandleLogin(role, tok, avail)
  \/ HandleLogout
  \/ HandleRetry
  \/ \E t \in Running : ServeFetchAll(t)
  \/ \E t \in Running : FetchAllDone(t)
  \/ \E kind \in LoginFailures, tok \in Tokens : LoginFails(kind, tok)

SpecLoad ==
  /\ Init /\ [][NextLoad]_vars
  /\ WF_vars(\E t \in Running : RestoreSession(t))
  /\ WF_vars(\E t \in Running : ServeFetchAll(t))
  /\ WF_vars(\E t \in Running : FetchAllDone(t))

\* One admin session after fetchAllData has stored the four lists: the
\* managers with their create, update and delete handlers.
InitAdmin ==
  /\ user = "admin"
  /\ data = [c \in Coll |-> <<SeedItem>>]
  /\ isLoading = FALSE
  /\ connectionError = FALSE
  /\ mounted = [c \in Managed |-> FALSE]
  /\ items = [c \in Managed |-> <<>>]
  /\ mgrLoading = [c \in Managed |-> FALSE]
  /\ server = [c \in Coll |-> <<SeedItem>>]
  /\ clock = 0
  /\ tasks = EmptyBag
  /\ toast = <<>>
  /\ fence = [c \in Managed |-> 0]
  /\ storage = Persisted("admin", "t1")
  /\ sent = {}
  /\ login = LoginIdle
  /\ PartsUnused

NextAdmin ==
  \/ \E c \in Managed : Mount(c)
  \/ \E c \in Managed, id \in 1..(MaxMut + 1) : HandleDelete(c, id)
  \/ \E c \in Managed, op \in {"create", "update"}, id \in 0..(MaxMut + 1), v \in Vals,
        file \in BOOLEAN :
       HandleSubmit(c, op, id, v, file)
  \/ \E t \in Running : ServeList(t)
  \/ \E t \in Running : ServeMutation(t)
  \/ \E t \in Running : DeliverMutation(t)
  \/ \E t \in Running : DeliverList(t)
  \/ LogoutElsewhere

SpecAdmin == InitAdmin /\ [][NextAdmin]_vars

\* ------------------------------------------- parts checked on their own
\* The page while one function or component is exercised by itself: nothing
\* is logged in, nothing is in flight, and nothing of it changes.
pageVars == <<appVars, mgrVars, srvVars, tasks, toast, fence, storage, sent, login>>
PageAtRest ==
  /\ user = NoUser /\ data = EmptyData /\ isLoading = FALSE
  /\ connectionError = FALSE
  /\ mounted = [c \in Managed |-> FALSE]
  /\ items = [c \in Managed |-> <<>>]
  /\ mgrLoading = [c \in Managed |-> FALSE]
  /\ server = [c \in Coll |-> <<SeedItem>>]
  /\ clock = 0 /\ tasks = EmptyBag /\ toast = <<>>
  /\ fence = [c \in Managed |-> 0]
  /\ storage = NoSession /\ sent = {}
  /\ login = LoginIdle

\* ------------------------------------------------------ handleResponse
\* HTTP statuses a backend answers with; Response.ok is status in 200..299.
Statuses == {200, 201, 204, 400, 401, 403, 404, 422, 500, 502, 503}
IsOk(status) == status \in 200..299

\* A response body: text that is not JSON, JSON null, or a JSON object
\* whose `error` member is missing, the empty string or a message.
Absent == "absent"
ErrorFields == {Absent, "", "Invalid credentials", "Not found"}
Undecodable == [kind |-> "undecodable", error |-> Absent]
Bodies ==
  {Undecodable, [kind |-> "null", error |-> Absent]}
    \cup {[kind |-> "object", error |-> e] : e \in ErrorFields}
NoBody == [kind |-> "none", error |-> Absent]

\* JavaScript truthiness of an optional string.
Truthy(x) == x \notin {Absent, ""}

\* (a failed decode that yields an object without `error`)
DecodeErrorBodyBlank(body) ==
  IF body.kind = "undecodable" THEN [kind |-> "object", error |-> Absent]
  ELSE body
\* `await response.json().catch(() => ({ error: 'Network error' }))`
DecodeErrorBody(body) ==
  IF body.kind = "undecodable" THEN [kind |-> "object", error |-> "Network error"]
  ELSE body

Thrown(message) == [done |-> TRUE, thrown |-> TRUE, message |-> message, value |-> NoBody]
Returned(body) == [done |-> TRUE, thrown |-> FALSE, message |-> "", value |-> body]
NotCalled == [done |-> FALSE, thrown |-> FALSE, message |-> "", value |-> NoBody]

\* handleResponse.  Reading `.error` of a decoded null throws a TypeError;
\* on the ok path response.json() rejects with a SyntaxError when the body
\* is not JSON.
handleResponse(status, body) ==
  IF ~IsOk(status)
  THEN LET error == DecodeErrorBody(body) IN
       IF error.kind = "null" THEN Thrown("TypeError")
       ELSE Thrown(IF Truthy(error.error) THEN error.error
                   ELSE "HTTP " \o ToString(status))
  ELSE IF body.kind = "undecodable" THEN Thrown("SyntaxError")
  ELSE Returned(body)

\* One API method call whose fetch resolved with the given response.
InitResponse ==
  /\ PageAtRest
  /\ response \in {[status |-> st, body |-> b, result |-> NotCalled] :
                      st \in Statuses, b \in Bodies}
  /\ listUrl = Unused /\ badge = Unused /\ img = Unused /\ daysForm = Unused

CallHandleResponse ==
  /\ ~response.result.done
  /\ response' = [response EXCEPT !.result = handleResponse(response.status, response.body)]
  /\ UNCHANGED <<pageVars, listUrl, badge, img, daysForm>>

NextResponse == CallHandleResponse
SpecResponse == InitResponse /\ [][NextResponse]_vars

\* -------------------------------------------------------------- getAll
\* An optional member of `params`: undefined, or a value.
Unset(v) == [set |-> FALSE, val |-> v]
Given(v) == [set |-> TRUE, val |-> v]
Filters == {"page", "limit", "region", "search"}

\* What getAll can be called with: nothing, or a params object whose four
\* members are each undefined or a value (0 and '' included).
NoParams ==
  [given |-> FALSE, page |-> Unset(0), limit |-> Unset(0),
   region |-> Unset(""), search |-> Unset("")]
ParamsGiven ==
  {[given |-> TRUE, page |-> pg, limit |-> li, region |-> re, search |-> se] :
     pg \in {Unset(0), Given(0), Given(1), Given(2)},
     li \in {Unset(0), Given(0), Given(10)},
     re \in {Unset(""), Given(""), Given("All"), Given("North")},
     se \in {Unset(""), Given(""), Given("goa")}}

\* `if (params?.page)`, `if (params?.search)`: the member is there and is
\* neither 0 nor ''.
HasValue(params, f) ==
  /\ params.given
  /\ params[f].set
  /\ params[f].val # (IF f \in {"page", "limit"} THEN 0 ELSE "")
\* number.toString() for page and limit; region and search are strings.
AsText(params, f) ==
  IF f \in {"page", "limit"} THEN ToString(params[f].val) ELSE params[f].val
Pair(params, f, cond) == IF cond THEN <<[key |-> f, value |-> AsText(params, f)]>> ELSE <<>>

\* (a getAll that forgets the 'All' sentinel)
QueryParamsWithAll(params) ==
  Pair(params, "page", HasValue(params, "page"))
    \o Pair(params, "limit", HasValue(params, "limit"))
    \o Pair(params, "region", HasValue(params, "region"))
    \o Pair(params, "search", HasValue(params, "search"))
\* The URLSearchParams getAll fills, in append order.
QueryParams(params) ==
  Pair(params, "page", HasValue(params, "page"))
    \o Pair(params, "limit", HasValue(params, "limit"))
    \o Pair(params, "region",
             HasValue(params, "region") /\ params.region.val # "All")
    \o Pair(params, "search", HasValue(params, "search"))

\* The URL handed to fetch: the collection's path, then '?' and the query
\* string when queryParams.toString() is not empty.
ListUrl(c, params) ==
  LET q == QueryParams(params)
  IN [path |-> c, mark |-> q # <<>>, query |-> q]
NoUrl == [path |-> "none", mark |-> FALSE, query |-> <<>>]

InitListUrl ==
  /\ PageAtRest
  /\ listUrl \in {[c |-> c, params |-> ps, url |-> NoUrl] :
                     c \in Managed, ps \in ParamsGiven \cup {NoParams}}
  /\ response = Unused /\ badge = Unused /\ img = Unused /\ daysForm = Unused

CallGetAll ==
  /\ listUrl.url = NoUrl
  /\ listUrl' = [listUrl EXCEPT !.url = ListUrl(listUrl.c, listUrl.params)]
  /\ UNCHANGED <<pageVars, response, badge, img, daysForm>>

NextListUrl == CallGetAll
SpecListUrl == InitListUrl /\ [][NextListUrl]_vars

\* --------------------------------------------------------------- isNew
\* `2 * 24 * 60 * 60 * 1000`
TwoDaysMs == 2 * 24 * 60 * 60 * 1000

\* The four components that draw the "new" badge, each with its own isNew:
\* `const twoDaysAgo = Date.now() - (2 * 24 * 60 * 60 * 1000);
\*  return createdAt > twoDaysAgo;`
Views == {"ExperienceManager", "ImageManager", "ExperienceViewer", "ItineraryViewer"}
\* (an isNew that counts the two-day mark itself as new)
isNewInclusive(createdAt, now) ==
  LET twoDaysAgo == now - TwoDaysMs IN createdAt >= twoDaysAgo
isNewExperienceManager(createdAt, now) ==
  LET twoDaysAgo == now - (2 * 24 * 60 * 60 * 1000) IN createdAt > twoDaysAgo
isNewImageManager(createdAt, now) ==
  LET twoDaysAgo == now - (2 * 24 * 60 * 60 * 1000) IN createdAt > twoDaysAgo
isNewExperienceViewer(createdAt, now) ==
  LET twoDaysAgo == now - (2 * 24 * 60 * 60 * 1000) IN createdAt > twoDaysAgo
isNewItineraryViewer(createdAt, now) ==
  LET twoDaysAgo == now - (2 * 24 * 60 * 60 * 1000) IN createdAt > twoDaysAgo
isNew(view, createdAt, now) ==
  CASE view = "ExperienceManager" -> isNewExperienceManager(createdAt, now)
    [] view = "ImageManager" -> isNewImageManager(createdAt, now)
    [] view = "ExperienceViewer" -> isNewExperienceViewer(createdAt, now)
    [] view = "ItineraryViewer" -> isNewItineraryViewer(createdAt, now)

\* Times are milliseconds counted from an instant two days and MaxSkew
\* milliseconds before the earliest `now` examined (isNew only compares a
\* difference of times, and all of them are exact in a JavaScript number).
NotDrawn == [drawn |-> FALSE, isNew |-> FALSE]
InitBadge ==
  /\ PageAtRest
  /\ badge \in {[createdAt |-> ca, now |-> TwoDaysMs + MaxSkew + d,
                   shown |-> [v \in Views |-> NotDrawn]] :
                    ca \in 0..(3 * MaxSkew), d \in 0..MaxSkew}
  /\ response = Unused /\ listUrl = Unused /\ img = Unused /\ daysForm = Unused

\* One component renders the item's card: `{isNew(item.createdAt) && <Badge>}`.
RenderBadge(view) ==
  /\ ~badge.shown[view].drawn
  /\ badge' = [badge EXCEPT !.shown[view] =
                 [drawn |-> TRUE, isNew |-> isNew(view, badge.createdAt, badge.now)]]
  /\ UNCHANGED <<pageVars, response, listUrl, img, daysForm>>

NextBadge == \E view \in Views : RenderBadge(view)
SpecBadge == InitBadge /\ [][NextBadge]_vars

\* --------------------------------------------------- ImageWithFallback
\* The default of the fallbackSrc prop.
Placeholder == "/api/placeholder/400/300"

\* (a handleError that falls back whenever there is a fallbackSrc)
ShouldFallBackAlways(st) == st.fallbackSrc # ""
\* `!hasError && fallbackSrc && imgSrc !== fallbackSrc`
ShouldFallBack(st) ==
  /\ ~st.hasError
  /\ st.fallbackSrc # ""
  /\ st.imgSrc # st.fallbackSrc

\* The component as mounted, for each choice of props: useState(src),
\* useState(false); onError / onLoad passed or not; no event yet.
InitImage ==
  /\ PageAtRest
  /\ img \in {[src |-> sr, fallbackSrc |-> fb, onError |-> oe, onLoad |-> ol,
                 imgSrc |-> sr, hasError |-> FALSE,
                 errors |-> 0, loads |-> 0, onErrorCalls |-> 0, onLoadCalls |-> 0] :
                  sr \in {"photo.jpg", Placeholder},
                  fb \in {Placeholder, "other.png", ""},
                  oe \in BOOLEAN, ol \in BOOLEAN}
  /\ response = Unused /\ listUrl = Unused /\ badge = Unused /\ daysForm = Unused

\* The <img> fires `error`: handleError.
ImgError ==
  /\ img.errors + img.loads < MaxEvents
  /\ img' = [img EXCEPT
               !.hasError = IF ShouldFallBack(img) THEN TRUE ELSE @,
               !.imgSrc = IF ShouldFallBack(img) THEN img.fallbackSrc ELSE @,
               !.errors = @ + 1,
               !.onErrorCalls = IF img.onError THEN @ + 1 ELSE @]
  /\ UNCHANGED <<pageVars, response, listUrl, badge, daysForm>>

\* The <img> fires `load`: handleLoad.
ImgLoad ==
  /\ img.errors + img.loads < MaxEvents
  /\ img' = [img EXCEPT
               !.hasError = FALSE,
               !.loads = @ + 1,
               !.onLoadCalls = IF img.onLoad THEN @ + 1 ELSE @]
  /\ UNCHANGED <<pageVars, response, listUrl, badge, daysForm>>

NextImage == ImgError \/ ImgLoad
SpecImage == InitImage /\ [][NextImage]_vars

\* ------------------------------------------- ItineraryManager: daysData
\* The text of the form's daysData field, as a sequence of pieces: a day
\* heading 'Day n:' (what /Day \d+:/i matches), a line break, or the text
\* of an activity (no line break, no heading, not blank).
Heading(n) == [t |-> "day", n |-> n, s |-> ""]
Break == [t |-> "nl", n |-> 0, s |-> ""]
Words(s) == [t |-> "text", n |-> 0, s |-> s]
Acts == {"Fort", "Beach"}

\* Array.prototype.join of pieces of text.
RECURSIVE JoinWith(_, _)
JoinWith(parts, sep) ==
  IF parts = <<>> THEN <<>>
  ELSE IF Len(parts) = 1 THEN parts[1]
  ELSE parts[1] \o sep \o JoinWith(Tail(parts), sep)

\* handleEdit: `Day ${day.day}:\n${day.activities.join('\n')}` per day,
\* joined by '\n\n'.
DayText(day) ==
  <<Heading(day.day), Break>>
    \o JoinWith([k \in 1..Len(day.activities) |-> <<Words(day.activities[k])>>], <<Break>>)
SerialiseDays(days) ==
  JoinWith([k \in 1..Len(days) |-> DayText(days[k])], <<Break, Break>>)

\* String.prototype.split on the pieces of one kind: the texts between them.
RECURSIVE SplitAt(_, _)
SplitAt(text, kind) ==
  IF text = <<>> THEN << <<>> >>
  ELSE LET rest == SplitAt(Tail(text), kind)
       IN IF Head(text).t = kind THEN << <<>> >> \o rest
          ELSE << <<Head(text)>> \o Head(rest) >> \o Tail(rest)

\* String.prototype.trim: line breaks are the only white space here.
RECURSIVE TrimLeft(_)
TrimLeft(text) ==
  IF text # <<>> /\ Head(text).t = "nl" THEN TrimLeft(Tail(text)) ELSE text
RECURSIVE TrimRight(_)
TrimRight(text) ==
  IF text # <<>> /\ text[Len(text)].t = "nl"
  THEN TrimRight(SubSeq(text, 1, Len(text) - 1)) ELSE text
Trim(text) == TrimRight(TrimLeft(text))

\* The characters of one line.
RECURSIVE LineOf(_)
LineOf(text) == IF text = <<>> THEN "" ELSE Head(text).s \o LineOf(Tail(text))

\* `block.trim().split('\n').filter(a => a.trim())`
ActivitiesOf(block) ==
  LET lines == SplitAt(Trim(block), "nl")
  IN SelectSeq([k \in 1..Len(lines) |-> LineOf(lines[k])], LAMBDA a : a # "")

\* handleSubmit: `daysData.split(/Day \d+:/i).filter(b => b.trim())`, then
\* `{ day: idx + 1, activities: ... }` per block.
ParseDays(text) ==
  LET dayBlocks == SelectSeq(SplitAt(text, "day"), LAMBDA b : Trim(b) # <<>>)
  IN [idx \in 1..Len(dayBlocks) |->
        [day |-> idx, activities |-> ActivitiesOf(dayBlocks[idx])]]

\* The days lists an itinerary can hold: up to MaxDays days, each with a
\* day number and up to MaxActs activities.
ActLists == UNION {[1..n -> Acts] : n \in 0..MaxActs}
DayLists ==
  UNION {[1..n -> [day : 1..MaxDays, activities : ActLists]] : n \in 0..MaxDays}

\* The itinerary list is shown; the form is closed.
InitDays ==
  /\ PageAtRest
  /\ daysForm \in {[days |-> ds, pc |-> "list", daysData |-> <<>>, parsed |-> <<>>] :
                      ds \in DayLists}
  /\ response = Unused /\ listUrl = Unused /\ badge = Unused /\ img = Unused

\* handleEdit on the itinerary: the form opens with daysData filled in.
EditDays ==
  /\ daysForm.pc = "list"
  /\ daysForm' = [daysForm EXCEPT !.pc = "editing",
                                   !.daysData = SerialiseDays(daysForm.days)]
  /\ UNCHANGED <<pageVars, response, listUrl, badge, img>>

\* handleSubmit with the text untouched: the days it puts in the request.
SubmitDays ==
  /\ daysForm.pc = "editing"
  /\ daysForm' = [daysForm EXCEPT !.pc = "submitted",
                                   !.parsed = ParseDays(daysForm.daysData)]
  /\ UNCHANGED <<pageVars, response, listUrl, badge, img>>

NextDays == EditDays \/ SubmitDays
SpecDays == InitDays /\ [][NextDays]_vars

\* ------------------------------------------------------------- claims
IsError(n) == n \in {"error:mutation", "error:load", "error:invalid-response"}
Emitted(ns) == {ns[k] : k \in 1..Len(ns)}
FailedIn(t) == {c \in Coll : t.res[c].st = "fail"}

\* C1: whenever fetchAllData completes and at least one of its four list
\* requests failed, connectionError is true (all four failed: the
\* connection-error screen, not the dashboard with four empty lists).
C1_ErrorFlagOnFailure ==
  [][\A t \in Running :
       FetchAllDone(t) /\ FailedIn(t) # {} => connectionError']_vars

\* C2: after fetchAllData, every collection whose request failed is empty
\* and every other collection holds exactly the list its request returned.
C2_FailureIsolation ==
  [][\A t \in Running :
       FetchAllDone(t) =>
         \A c \in Coll :
           data'[c] = IF c \in FailedIn(t) THEN <<>> ELSE t.res[c].items]_vars

\* C3: the snapshot only ever becomes four empty lists or, per collection,
\* the list a successful list request for that collection has just
\* returned; no step patches a collection locally.
C3_SnapshotOnlyRefetched ==
  [][data' # data =>
       \/ data' = EmptyData
       \/ \A c \in Coll :
            data'[c] # data[c] =>
              \E t \in Running :
                \/ /\ DeliverList(t) /\ t.c = c /\ t.req.st = "ok"
                   /\ data'[c] = t.req.items
                \/ /\ FetchAllDone(t) /\ t.res[c].st = "ok"
                   /\ data'[c] = t.res[c].items]_vars

\* C4: when a create, update or delete request of a manager succeeds, the
\* handler starts the list request of that collection and changes neither
\* the manager's list nor the snapshot by itself.
C4_MutationThenRefetch ==
  [][\A t \in Running :
       DeliverMutation(t) /\ t.req.st = "ok" =>
         /\ tasks' = Become(t, [t EXCEPT !.pc = "refreshing", !.req = Pending])
         /\ items' = items
         /\ data' = data]_vars

\* C5: when the list request of fetchExperiences / fetchItineraries /
\* fetchImages fails, the manager's list and the snapshot are what they
\* were before.
C5_FailedRefreshKeepsCache ==
  [][\A t \in Running :
       DeliverList(t) /\ t.req.st = "fail" => items' = items /\ data' = data]_vars

\* C6: once the refresh of a successful mutation has resolved, no list
\* response that the backend produced before that mutation is stored for
\* that collection any more.
C6_NoStaleOverwrite ==
  [][\A t \in Running :
       DeliverList(t) /\ t.req.st = "ok" => t.req.t >= fence[t.c]]_vars

\* C7: at most one list request of a mounted manager's collection is
\* outstanding at any time.
ListRequests(c) ==
  BagCardinality([t \in {u \in Running : u.pc = "refreshing" /\ u.c = c /\ u.live}
                    |-> tasks[t]])
C7_AtMostOneListRequest == \A c \in Managed : ListRequests(c) <= 1

\* C8: when a handler has finished a successful create, update or delete
\* (with its refresh, where it has one, succeeding) and the backend has
\* applied no other mutation since, the manager's list and the snapshot's
\* entry equal the backend's current list of that collection.
C8_MutationRoundTrip ==
  [][\A t \in Running :
       /\ t.live /\ t.req.st = "ok" /\ clock = t.mt
       /\ \/ DeliverList(t) /\ t.kind # "fetch"
          \/ DeliverMutation(t) /\ tasks' = Finish(t) /\ toast' = <<"success:mutation">>
       => items'[t.c] = server[t.c] /\ data'[t.c] = server[t.c]]_vars

\* C9: when a create, update or delete request fails, the manager's list
\* and the snapshot are unchanged and toast.error is emitted.
C9_FailedMutationNotified ==
  [][\A t \in Running :
       DeliverMutation(t) /\ t.req.st = "fail" =>
         /\ items' = items
         /\ data' = data
         /\ \E n \in Emitted(toast') : IsError(n)]_vars

\* C9 witness: a delete or submit request has just failed on a manager
\* that shows items.
C9_Witness ==
  /\ toast = <<"error:mutation">>
  /\ \E c \in Managed : mounted[c] /\ items[c] # <<>>

\* C10: when the list request of a refresh fails, the handler awaiting it
\* sees the error and does not report success.
C10_RefreshFailureRaised ==
  [][\A t \in Running :
       DeliverList(t) /\ t.req.st = "fail" /\ t.kind = "delete" =>
         "success:mutation" \notin Emitted(toast')]_vars

\* C11: whenever no request for a collection is in flight, the list its
\* mounted manager shows equals that collection of the shared snapshot.
InFlight(c) == \E t \in Running : t.c \in {c, "all"}
C11_ManagerShowsSnapshot ==
  \A c \in Managed : mounted[c] /\ ~InFlight(c) => items[c] = data[c]

\* The screens App renders for a logged-in user.
Loading == user # NoUser /\ isLoading
Ready == user # NoUser /\ ~isLoading /\ ~connectionError
ConnectionErrorShown == user # NoUser /\ ~isLoading /\ connectionError

\* C12: every fetchAllData ends, whatever its four requests settled to,
\* with isLoading false and without throwing into its caller (handleLogin
\* goes on to its welcome toast); the loading screen is always eventually
\* followed by the dashboard or the connection-error screen.
C12_FetchAllTerminates ==
  /\ [][\A t \in Running :
         FetchAllDone(t) =>
           /\ ~isLoading'
           /\ t.op = "login" => "success:login" \in Emitted(toast')]_vars
  /\ (Loading ~> (Ready \/ ConnectionErrorShown))

\* C12 witness: a fetchAllData started by a login has ended with a thrown
\* TypeError inside (null body) and the connection-error screen is shown.
C12_Witness ==
  ConnectionErrorShown /\ toast = <<"error:connect", "success:login">>

\* C13: handleLogout, from the dashboard or from the connection-error
\* screen, leaves no user, four empty collections, connectionError false
\* and none of the keys 'user', 'token', 'authToken' in localStorage.
C13_LogoutClearsSession ==
  [][HandleLogout /\ (Ready \/ ConnectionErrorShown) =>
       /\ user' = NoUser
       /\ data' = EmptyData
       /\ ~connectionError'
       /\ storage'.user = NoEntry
       /\ storage'.token = NoToken
       /\ storage'.authToken = NoToken]_vars

\* C13 witness: a logged-in session has just been ended by handleLogout
\* (the mount effect's own logout leaves isLoading true).
C13_Witness ==
  /\ user = NoUser /\ ~isLoading /\ Booted
  /\ toast = <<"success:logout">>
  /\ storage = NoSession

\* The fetchAllData invocations in flight in a bag of tasks.
FetchAlls(b) ==
  BagCardinality([t \in {u \in BagToSet(b) : u.kind = "fetchAll"} |-> b[t]])

\* C14: a login that returned a user and a token (localStorage working)
\* leaves exactly that token under 'token' and 'authToken' and a stored
\* user that parses back to that user, makes that user the active user,
\* and starts one fetchAllData, whose requests go out with the token
\* already stored.
C14_LoginEstablishesSession ==
  [][\A role \in Roles, tok \in Tokens :
       HandleLogin(role, tok, TRUE) =>
         /\ storage'.token = tok
         /\ storage'.authToken = tok
         /\ CanParse(storage'.user) /\ Parse(storage'.user) = role
         /\ user' = role
         /\ FetchAlls(tasks') = FetchAlls(tasks) + 1
         /\ FetchAlls(tasks') = 1
         /\ FetchAllRequests \subseteq sent']_vars

\* C14 witness: a login with token t2 has just started its fetchAllData.
C14_Witness ==
  /\ user \in Roles /\ isLoading
  /\ LoginRequest \in sent
  /\ storage = Persisted(user, "t2")

\* C15: the mount effect finding a stored token and a stored user text
\* that JSON.parse rejects ends normally with localStorage cleared, no
\* user (the login page) and no fetchAllData started.
C15_CorruptSessionCleared ==
  [][\A t \in Running :
       /\ RestoreSession(t)
       /\ storage.token # NoToken /\ storage.user # NoEntry
       /\ ~CanParse(storage.user)
       => /\ tasks' = Finish(t)
          /\ storage' = NoSession
          /\ user' = NoUser
          /\ FetchAlls(tasks') = 0
          /\ sent' = {}]_vars

\* C15 witness: the mount effect has logged out on a corrupt stored user
\* (isLoading still has its initial value).
C15_Witness ==
  /\ Booted /\ user = NoUser /\ isLoading
  /\ storage = NoSession
  /\ toast = <<"success:logout">>

\* C16: when localStorage.setItem throws during a login that returned a
\* user and a token, nothing is reported to the user and the session is
\* still established in memory: the user is set and fetchAllData starts.
C16_LoginSurvivesStorageFailure ==
  [][\A role \in Roles, tok \in Tokens :
       HandleLogin(role, tok, FALSE) =>
         /\ user' = role
         /\ FetchAlls(tasks') = 1
         /\ "error:login" \notin Emitted(toast')]_vars

\* C17: while a token is stored under 'authToken', every request the API
\* clients send for a collection carries Authorization: Bearer <that token>.
C17_BearerOnEveryRequest ==
  \A r \in sent :
    r.c \in Coll /\ storage.authToken # NoToken =>
      r.authorization = Bearer(storage.authToken)

\* C18: every create / update request of a collection is multipart without
\* the JSON content type when it carries a file, a JSON body with the JSON
\* content type when it carries none, and never carries a file together
\* with the JSON encoding or with an image URL.
C18_PayloadEncoding ==
  \A r \in sent :
    r.c \in Coll /\ r.method \in {"POST", "PUT"} =>
      /\ r.file => r.body = "multipart" /\ r.contentType # Json
      /\ ~r.file => r.body = "json" /\ r.contentType = Json
      /\ ~(r.file /\ r.url)

\* C19: every place that stores the result of a list request stores the
\* items of the response, whether the body was {data: [...]} or the bare
\* array: fetchAllData for each of its resolved requests, and a manager's
\* fetch for its list and for the snapshot.
C19_BothShapesAccepted ==
  [][\A t \in Running :
       /\ FetchAllDone(t) /\ ~Threw(t) =>
            \A c \in Coll : t.res[c].st = "ok" => data'[c] = t.res[c].items
       /\ DeliverList(t) /\ t.req.st = "ok" =>
            /\ data'[t.c] = t.req.items
            /\ t.live => items'[t.c] = t.req.items]_vars

\* C20: handleRetry with a user logged in is fetchAllData: it clears
\* connectionError, shows the loading screen and sends the four list
\* requests; when all four resolve with a list, the dashboard is shown
\* with exactly the fetched lists.
C20_RetryIsFetchAll ==
  [][/\ HandleRetry =>
          /\ ~connectionError' /\ isLoading'
          /\ sent' = FetchAllRequests
          /\ FetchAlls(tasks') = 1
     /\ \A t \in Running :
          /\ FetchAllDone(t) /\ t.op = "retry"
          /\ \A c \in Coll : t.res[c].st = "ok" /\ t.res[c].shape # "null"
          => /\ user' # NoUser /\ ~isLoading' /\ ~connectionError'
             /\ data' = [c \in Coll |-> t.res[c].items]]_vars

\* The requests of a step that go to collection c.
SentTo(c) == {r \in sent' : r.c = c}

C25_LoggedOutSnapshotEmpty == user = NoUser => data = EmptyData

\* C26: the continuation of a manager's request changes no collection of
\* the snapshot other than the manager's own.
C26_OnlyOwnCollectionChanges ==
  [][\A t \in Running :
       DeliverList(t) \/ DeliverMutation(t) =>
         \A d \in Coll \ {t.c} : data'[d] = data[d]]_vars

\* C27: a login attempt that establishes no session writes none of the
\* persisted keys, leaves user null and ends with LoginPage.loading false;
\* with an empty field it sends no request.
C27_FailedLoginChangesNothing ==
  [][\A kind \in LoginFailures, tok \in Tokens :
       LoginFails(kind, tok) =>
         /\ storage' = storage
         /\ user' = NoUser
         /\ ~login'.loading
         /\ kind = "empty" => sent' = {}]_vars

\* C28: a request carries an Authorization header only while a token is
\* stored under 'authToken', and then the credential is that token.
C28_CredentialIsStoredToken ==
  [][\A r \in sent' :
       r.authorization # NoHeader =>
         /\ storage.authToken # NoToken
         /\ r.authorization = Bearer(storage.authToken)]_vars

\* C21: a call that received a non-2xx response throws, it never returns;
\* the message is the body's `error` member when the body is an object that
\* has a non-empty one, and 'Network error' when the body is not JSON.
C21_NonOkAlwaysThrows ==
  response.result.done /\ ~IsOk(response.status) =>
    /\ response.result.thrown
    /\ response.body.kind = "object" /\ Truthy(response.body.error) =>
         response.result.message = response.body.error
    /\ response.body.kind = "undecodable" =>
         response.result.message = "Network error"

\* C21 witness: a 500 whose body is not JSON has been handled.
C21_Witness ==
  /\ response.result.done
  /\ response.status = 500
  /\ response.body = Undecodable
  /\ response.result.message = "Network error"

\* The keys of a URL's query string, with their values.
KeysOf(url) == {url.query[k].key : k \in 1..Len(url.query)}
ValuesOf(url, f) ==
  {url.query[k].value : k \in {j \in 1..Len(url.query) : url.query[j].key = f}}

\* C22: the query string of a getAll URL holds exactly the filters that
\* were passed with a value (a number other than 0, a string other than ''),
\* region left out when it is 'All'; each once, with the value passed; and
\* the URL has a '?' exactly when some filter is in it.
C22_QueryHoldsPresentFilters ==
  listUrl.url # NoUrl =>
    LET ps == listUrl.params
        url == listUrl.url
    IN /\ url.path = listUrl.c
       /\ \A f \in Filters :
            f \in KeysOf(url) <=>
              /\ HasValue(ps, f)
              /\ ~(f = "region" /\ ps.region.val = "All")
       /\ \A f \in KeysOf(url) : ValuesOf(url, f) = {AsText(ps, f)}
       /\ Len(url.query) = Cardinality(KeysOf(url))
       /\ url.mark <=> KeysOf(url) # {}

\* C22 witness: getAll({page: 2, limit: 10, region: 'All', search: 'goa'})
\* has built a URL whose query string is page, limit, search.
C22_Witness ==
  /\ listUrl.url # NoUrl
  /\ listUrl.params.given
  /\ listUrl.params.region = Given("All")
  /\ KeysOf(listUrl.url) = {"page", "limit", "search"}

C29_FallbackOnlyForward ==
  [][/\ img'.imgSrc \in {img.src, img.fallbackSrc}
     /\ img'.imgSrc # img.imgSrc =>
          /\ img'.errors = img.errors + 1
          /\ img.imgSrc # img.fallbackSrc
          /\ img'.imgSrc = img.fallbackSrc
     /\ img.imgSrc = img.fallbackSrc => img'.imgSrc = img.fallbackSrc
     /\ img'.errors = img.errors + 1 /\ img.imgSrc = img.fallbackSrc =>
          img'.imgSrc = img.imgSrc /\ img'.hasError = img.hasError
     /\ img.onError => img'.onErrorCalls = img'.errors
     /\ img.onLoad => img'.onLoadCalls = img'.loads]_vars

\* C29 witness: the component fell back, the fallback loaded, and a later
\* error event left it on the fallback, the caller's onError called each time.
C29_Witness ==
  /\ img.src = "photo.jpg" /\ img.fallbackSrc = Placeholder
  /\ img.imgSrc = Placeholder
  /\ img.errors >= 2 /\ img.loads >= 1
  /\ ~img.hasError
  /\ img.onError /\ img.onErrorCalls = img.errors

\* C30: editing an itinerary and submitting the untouched text gives days
\* numbered 1..k in order, and gives back the itinerary's own days list
\* whenever that list is numbered 1..n in order, days without activities
\* included.
C30_DaysRoundTrip ==
  daysForm.pc = "submitted" =>
    /\ \A i \in 1..Len(daysForm.parsed) : daysForm.parsed[i].day = i
    /\ (\A i \in 1..Len(daysForm.days) : daysForm.days[i].day = i) =>
         daysForm.parsed = daysForm.days
====
